---- MODULE Spec2Model ----
(***************************************************************************)
(* Model of yolocrop's location resolver (src/yolocrop/main.py):           *)
(* get_location, cached_download, get_stem_extension, get_cached_path.     *)
(*                                                                         *)
(* Strings (URLs, file names, paths) are sequences of one-character        *)
(* strings, so that rfind, split and startswith are computed.  File        *)
(* contents are sequences of byte tokens.  Each process walks through      *)
(* get_location line by line; pc names the source line it is about to      *)
(* execute.                                                                *)
(***************************************************************************)
EXTENDS Naturals, Integers, Sequences, FiniteSets, TLC

VARIABLES
    fs,            \* the filesystem: path -> [exists, bytes]
    cacheDir,      \* TRUE once the cache directory has been created
    procs,         \* the resolvers that run
    pc,            \* per resolver: "idle" or the line about to execute
    location,      \* get_location's argument location
    force,         \* get_location's argument force
    local_path,    \* get_location's local_path
    local_path_gz, \* get_location's local_path_gz
    target,        \* cached_download's local_path
    outcome,       \* how the last call ended: "none", "returned" or the exception class
    result,        \* the path returned by the last call
    errArg,        \* the url or path named in the exception message
    fetched,       \* history: urls passed to urlretrieve in the current call
    fetchExc,      \* history: exception urlretrieve raised in the current call
    payloadGot,    \* history: payload a successful urlretrieve wrote in the current call
    missAt73,      \* history: line 73 found the final file absent
    touched,       \* history: the current call accessed the cache directory
    uncached,      \* history: the url had no cache file when the current call started
    okPath,        \* history: url -> path returned by a successful force=False call, no forced call since
    hadOK,         \* history: okPath of the url when the current call started
    errLine,       \* history: the line that was executing when the last call raised
    dlEntry,       \* history: the target file as cached_download found it at line 38
    final0,        \* history: the final file as it was when the current call started
    menu,          \* the calls the callers make: pairs <<location, force>>
    budget,        \* per resolver: calls it may still start, -1 for any number
    kb,            \* KeyBuilder on its own: a name or url and what was derived from it
    crop           \* the box selection loop of yolocrop

vars == <<fs, cacheDir, procs, pc, location, force, local_path, local_path_gz,
          target, outcome, result, errArg, fetched, fetchExc, payloadGot,
          missAt73, touched, uncached, okPath, hadOK, errLine, dlEntry, final0,
          menu, budget, kb, crop>>

----------------------------------------------------------------------------
(* Bounds and inputs *)

MaxDataLen == 2

MaxNameLen == 4

MaxConcCalls == 1

MaxBoxes == 3

MaxConf == 2

AllProcs == {1, 2}

NoPath == << >>

\* "http://ex.com/w.pt"
UrlPt == <<"h","t","t","p",":","/","/","e","x",".","c","o","m","/","w",".","p","t">>
\* "http://ex.com/w.pt.gz"
UrlGz == <<"h","t","t","p",":","/","/","e","x",".","c","o","m","/","w",".","p","t",".","g","z">>
Urls == {UrlPt, UrlGz}

\* urls for KeyBuilder on its own
\* "http://ex.com/model.pt.gz"
UrlModelPtGz == <<"h","t","t","p",":","/","/","e","x",".","c","o","m","/","m","o","d","e","l",".","p","t",".","g","z">>
\* "http://ex.com/model.gz"
UrlModelGz == <<"h","t","t","p",":","/","/","e","x",".","c","o","m","/","m","o","d","e","l",".","g","z">>
\* "http://ex.com/modelfile"
UrlModelfile == <<"h","t","t","p",":","/","/","e","x",".","c","o","m","/","m","o","d","e","l","f","i","l","e">>
\* "http://ex.com/.gitignore"
UrlGitignore == <<"h","t","t","p",":","/","/","e","x",".","c","o","m","/",".","g","i","t","i","g","n","o","r","e">>
\* "http://ex.com/.gz"
UrlDotGz == <<"h","t","t","p",":","/","/","e","x",".","c","o","m","/",".","g","z">>
\* "https://ex.com/d.e/a.b.c"
UrlABC == <<"h","t","t","p","s",":","/","/","e","x",".","c","o","m","/","d",".","e","/","a",".","b",".","c">>
\* "http://ex.com/x.gz.gz"
UrlGzGz == <<"h","t","t","p",":","/","/","e","x",".","c","o","m","/","x",".","g","z",".","g","z">>
\* "http://ex.com/.hidden.gz"
UrlHiddenGz == <<"h","t","t","p",":","/","/","e","x",".","c","o","m","/",".","h","i","d","d","e","n",".","g","z">>
\* "http://ex.com/"
UrlSlash == <<"h","t","t","p",":","/","/","e","x",".","c","o","m","/">>
\* "http://ex.com"
UrlHost == <<"h","t","t","p",":","/","/","e","x",".","c","o","m">>
KeyUrls == Urls \cup {UrlModelPtGz, UrlModelGz, UrlModelfile, UrlGitignore, UrlDotGz, UrlABC, UrlGzGz, UrlHiddenGz, UrlSlash, UrlHost}

\* local files: "w.pt" exists and is non-empty, "e.pt" exists and is empty, "n.pt" is missing
LocalFull == <<"w",".","p","t">>
LocalEmpty == <<"e",".","p","t">>
LocalMissing == <<"n",".","p","t">>
LocalPaths == {LocalFull, LocalEmpty, LocalMissing}

Locations == Urls \cup LocalPaths

\* cache_dir as passed to get_location: "/c"
CacheDirPath == <<"/","c">>

----------------------------------------------------------------------------
(* Strings *)

\* str.rfind(c): 0-based index of the last occurrence, -1 if there is none
RFind(s, c) ==
    LET hits == {i \in 1..Len(s) : s[i] = c}
    IN  IF hits = {} THEN -1
        ELSE (CHOOSE i \in hits : \A j \in hits : j <= i) - 1

\* s[:n]
Take(s, n) == SubSeq(s, 1, n)

\* s[n:]
Drop(s, n) == SubSeq(s, n + 1, Len(s))

\* str.startswith("http")
StartsWithHttp(s) == Len(s) >= 4 /\ Take(s, 4) = <<"h","t","t","p">>

\* s.split("/")[-1]
LastSegment(s) == Drop(s, RFind(s, "/") + 1)

Prefixes(s) == {Take(s, n) : n \in 0..Len(s)}

----------------------------------------------------------------------------
(* KeyBuilder *)

\* as if a "." at index 0 also split the name
get_stem_extension_AtZero(name) ==
    LET extension_location == RFind(name, ".")
    IN  IF extension_location >= 0
        THEN [name_stem |-> Take(name, extension_location),
              extension |-> Drop(name, extension_location)]
        ELSE [name_stem |-> name, extension |-> <<".","d","a","t">>]

get_stem_extension(name) ==
    LET extension_location == RFind(name, ".")
    IN  IF extension_location > 0
        THEN [name_stem |-> Take(name, extension_location),
              extension |-> Drop(name, extension_location)]
        ELSE [name_stem |-> name, extension |-> <<".","d","a","t">>]

\* hashlib.md5(location.encode()).hexdigest(), kept as one token
url_hash(url) ==
    CASE url = UrlPt -> "3cdedf38523672852f9ddfb71599a645"
      [] url = UrlGz -> "678817a3b064fffdc07514c592364a52"
      [] url = UrlModelPtGz -> "2dcd21158c2af0b5c9929610a8627109"
      [] url = UrlModelGz -> "23f0b6f15fd4b955029002b58dcf295d"
      [] url = UrlModelfile -> "cc1e012a7a58bfa23d74e8ec44450be5"
      [] url = UrlGitignore -> "d283eb5448d82a6ebfd5a00eac1e5979"
      [] url = UrlDotGz -> "6273e2bce614f467bf82acaf505d6ba9"
      [] url = UrlABC -> "3f8d889c18c75049e9291d37be2a9b90"
      [] url = UrlGzGz -> "bc4c368d125b072454a053a856ee2039"
      [] url = UrlHiddenGz -> "3dc6a86d6e8c01c9d01ba1f03764dbd6"
      [] url = UrlSlash -> "bafb5987107b0cf8dc56dbddf2beb9b4"
      [] url = UrlHost -> "3dbf45d44b4f0db646f4e6aef5d097a8"
      [] OTHER -> "d41d8cd98f00b204e9800998ecf8427e"

\* cache_dir / filename
get_cached_path(filename) == CacheDirPath \o <<"/">> \o filename

DotGz == <<".","g","z">>

\* the first split, line 64
Key1(url) == get_stem_extension(LastSegment(url))

IsGzUrl(url) == Key1(url).extension = DotGz

\* as if the split were not re-applied
Key2_NoResplit(url) == Key1(url)

\* the split re-applied to the stem, line 69
Key2(url) == get_stem_extension(Key1(url).name_stem)

\* f"{name_stem}-{url_hash}{extension}", lines 71 and 83
FinalPath(url) ==
    LET k == IF IsGzUrl(url) THEN Key2(url) ELSE Key1(url)
    IN  get_cached_path(k.name_stem \o <<"-">> \o <<url_hash(url)>> \o k.extension)

\* as if the download went straight into the final file
TransientPath_SameAsFinal(url) == FinalPath(url)

\* f"{name_stem}-{url_hash}{extension}.gz", line 70
TransientPath(url) == FinalPath(url) \o DotGz

CachePaths == {FinalPath(u) : u \in Urls} \cup {TransientPath(u) : u \in {v \in Urls : IsGzUrl(v)}}

Paths == LocalPaths \cup CachePaths

----------------------------------------------------------------------------
(* Files *)

Absent == [exists |-> FALSE, bytes |-> << >>]

File(b) == [exists |-> TRUE, bytes |-> b]

\* Path.exists()
Exists(f, path) == f[path].exists

\* Path.stat().st_size
Size(f, path) == Len(f[path].bytes)

\* as if the file were opened in append mode
WriteFile_Append(f, path, b) == [f EXCEPT ![path] = File(f[path].bytes \o b)]

\* open(path, 'wb') followed by writes of b: the old content is replaced
WriteFile(f, path, b) == [f EXCEPT ![path] = File(b)]

\* Path.unlink()
Unlink(f, path) == [f EXCEPT ![path] = Absent]

----------------------------------------------------------------------------
(* Payloads and gzip *)

RECURSIVE Rep(_)
Rep(n) == IF n = 0 THEN << >> ELSE <<"a">> \o Rep(n - 1)

DataSet == {Rep(n) : n \in 0..MaxDataLen}

\* a gzip stream: header, deflated body, trailer
GzipEncode(d) == <<"GZ">> \o d \o <<"END">>

\* bytes that are no gzip stream
Junk == <<"x">>

\* a gzip stream cut before its trailer
Truncated == <<"GZ", "a">>

\* what the server may send
Payloads == {<< >>, Junk, Truncated} \cup {GzipEncode(d) : d \in DataSet}

\* gzip.open(...).read(): an empty file reads as empty; a bad header is
\* BadGzipFile; a stream that ends before its trailer is EOFError
GunzipStream(b) ==
    IF b = << >> THEN [err |-> "none", out |-> << >>]
    ELSE IF b[1] # "GZ" THEN [err |-> "BadGzipFile", out |-> << >>]
    ELSE IF Len(b) >= 2 /\ b[Len(b)] = "END"
         THEN [err |-> "none", out |-> SubSeq(b, 2, Len(b) - 1)]
         ELSE [err |-> "EOFError", out |-> Drop(b, 1)]

----------------------------------------------------------------------------
(* Decisions taken by the code *)

\* as if force were ignored
NeedsDownload_NoForce(f, path, frc) == ~Exists(f, path) \/ Size(f, path) = 0

\* as if only force triggered a download
NeedsDownload_ForceOnly(f, path, frc) == frc

\* as if an empty file counted as downloaded
NeedsDownload_ExistsOnly(f, path, frc) == ~Exists(f, path) \/ frc

\* line 38: (not local_path.exists() or local_path.stat().st_size == 0) or force
NeedsDownload(f, path, frc) == (~Exists(f, path) \/ Size(f, path) = 0) \/ frc

\* as if only URLError were caught
DownloadExcept_UrlErrorOnly(exc) == IF exc = "URLError" THEN "DownloadError" ELSE exc

\* lines 42-43: the bare except turns every exception into DownloadError
DownloadExcept(exc) == "DownloadError"

\* as if the size were not tested after the attempt
DownloadMissing_ExistsOnly(f, path) == ~Exists(f, path)

\* line 45: not local_path.exists() or local_path.stat().st_size == 0
DownloadMissing(f, path) == ~Exists(f, path) \/ Size(f, path) = 0

\* as if the final file were never reused
GzNeedsFetch_Always(f, path, frc) == TRUE

\* as if a transient left behind also forced the branch
GzNeedsFetch_StaleGz(f, path, frc) == ~Exists(f, path) \/ frc \/ Exists(f, path \o <<".","g","z">>)

\* as if an empty final file counted as missing
GzNeedsFetch_EmptyToo(f, path, frc) == (~Exists(f, path) \/ Size(f, path) = 0) \/ frc

\* line 73: not local_path.exists() or force
GzNeedsFetch(f, path, frc) == ~Exists(f, path) \/ frc

\* as if the transient were kept
UnlinkGz_Skip(f, path) == f

\* line 81: local_path_gz.unlink()
UnlinkGz(f, path) == Unlink(f, path)

\* as if the size were not tested
CannotRead_ExistsOnly(f, path) == ~Exists(f, path)

\* as if the existence test had lost its "not"
CannotRead_Inverted(f, path) == Exists(f, path) \/ Size(f, path) = 0

\* as if only emptiness of an existing file were tested
CannotRead_SizeOnly(f, path) == Exists(f, path) /\ Size(f, path) = 0

\* line 88: not local_path.exists() or local_path.stat().st_size == 0
CannotRead(f, path) == ~Exists(f, path) \/ Size(f, path) = 0

\* what urlretrieve(url, filename) can do with the payload the server sends:
\* fail before filename is opened, fail after it was opened and partly
\* written, or write the whole payload
FetchOutcomes(payload) ==
    {[exc |-> "none", opened |-> TRUE, bytes |-> payload],
     [exc |-> "URLError", opened |-> FALSE, bytes |-> << >>]}
    \cup {[exc |-> e, opened |-> TRUE, bytes |-> b] :
            e \in {"ContentTooShortError", "OSError"}, b \in Prefixes(payload)}

----------------------------------------------------------------------------
(* State *)

NoPayload == [got |-> FALSE, bytes |-> << >>]

NoEntry == [entered |-> FALSE, file |-> Absent]

\* KeyBuilder and the box selection are not running
KbIdle == [pc |-> "off", name |-> << >>, url |-> << >>, force |-> FALSE,
           split |-> [name_stem |-> << >>, extension |-> << >>],
           local_path |-> << >>, local_path_gz |-> << >>]

CropIdle == [pc |-> "off", confs |-> << >>, i |-> 0, best_confidence |-> 0,
             best_boxes |-> 0, saved |-> 0]

InitFs ==
    [path \in Paths |->
        IF path = LocalFull THEN File(<<"a">>)
        ELSE IF path = LocalEmpty THEN File(<< >>)
        ELSE Absent]

InitProc ==
    /\ pc = [p \in AllProcs |-> "idle"]
    /\ location = [p \in AllProcs |-> NoPath]
    /\ force = [p \in AllProcs |-> FALSE]
    /\ local_path = [p \in AllProcs |-> NoPath]
    /\ local_path_gz = [p \in AllProcs |-> NoPath]
    /\ target = [p \in AllProcs |-> NoPath]
    /\ outcome = [p \in AllProcs |-> "none"]
    /\ result = [p \in AllProcs |-> NoPath]
    /\ errArg = [p \in AllProcs |-> NoPath]
    /\ fetched = [p \in AllProcs |-> << >>]
    /\ fetchExc = [p \in AllProcs |-> "none"]
    /\ payloadGot = [p \in AllProcs |-> NoPayload]
    /\ missAt73 = [p \in AllProcs |-> FALSE]
    /\ touched = [p \in AllProcs |-> FALSE]
    /\ uncached = [p \in AllProcs |-> FALSE]
    /\ hadOK = [p \in AllProcs |-> NoPath]
    /\ errLine = [p \in AllProcs |-> "none"]
    /\ dlEntry = [p \in AllProcs |-> NoEntry]
    /\ final0 = [p \in AllProcs |-> Absent]

\* one resolver, an empty cache
Init ==
    /\ fs = InitFs
    /\ cacheDir = FALSE
    /\ procs = {1}
    /\ menu = Locations \X BOOLEAN
    /\ budget = [p \in AllProcs |-> -1]
    /\ okPath = [u \in Urls |-> NoPath]
    /\ InitProc
    /\ kb = KbIdle
    /\ crop = CropIdle

----------------------------------------------------------------------------
(* get_location, line by line *)

Goto(p, line) == pc' = [pc EXCEPT ![p] = line]

\* raise kind(arg): the call ends
Raise(p, kind, arg) ==
    /\ pc' = [pc EXCEPT ![p] = "idle"]
    /\ outcome' = [outcome EXCEPT ![p] = kind]
    /\ errArg' = [errArg EXCEPT ![p] = arg]
    /\ result' = [result EXCEPT ![p] = NoPath]
    /\ errLine' = [errLine EXCEPT ![p] = pc[p]]

Running(p) == UNCHANGED <<outcome, errArg, result, errLine>>

\* lines 61-71, 83, 86: the call starts, the location is classified and the
\* cache paths are built (get_cached_path creates the cache directory)
Call(p) ==
    /\ pc[p] = "idle"
    /\ budget[p] # 0
    /\ budget' = [budget EXCEPT ![p] = IF @ > 0 THEN @ - 1 ELSE @]
    /\ \E loc \in Locations, frc \in BOOLEAN :
        /\ <<loc, frc>> \in menu
        /\ location' = [location EXCEPT ![p] = loc]
        /\ force' = [force EXCEPT ![p] = frc]
        /\ IF StartsWithHttp(loc)
           THEN /\ cacheDir' = TRUE
                /\ touched' = [touched EXCEPT ![p] = TRUE]
                /\ local_path' = [local_path EXCEPT ![p] = FinalPath(loc)]
                /\ hadOK' = [hadOK EXCEPT ![p] = okPath[loc]]
                /\ final0' = [final0 EXCEPT ![p] = fs[FinalPath(loc)]]
                /\ uncached' = [uncached EXCEPT ![p] =
                                    /\ ~Exists(fs, FinalPath(loc))
                                    /\ IsGzUrl(loc) => ~Exists(fs, TransientPath(loc))]
                /\ okPath' = IF frc THEN [okPath EXCEPT ![loc] = NoPath] ELSE okPath
                /\ IF IsGzUrl(loc)
                   THEN /\ local_path_gz' = [local_path_gz EXCEPT ![p] = TransientPath(loc)]
                        /\ target' = [target EXCEPT ![p] = NoPath]
                        /\ Goto(p, "l73")
                   ELSE /\ local_path_gz' = [local_path_gz EXCEPT ![p] = NoPath]
                        /\ target' = [target EXCEPT ![p] = FinalPath(loc)]
                        /\ Goto(p, "l38")
           ELSE /\ cacheDir' = cacheDir
                /\ touched' = [touched EXCEPT ![p] = FALSE]
                /\ local_path' = [local_path EXCEPT ![p] = loc]
                /\ local_path_gz' = [local_path_gz EXCEPT ![p] = NoPath]
                /\ target' = [target EXCEPT ![p] = NoPath]
                /\ hadOK' = [hadOK EXCEPT ![p] = NoPath]
                /\ final0' = [final0 EXCEPT ![p] = Absent]
                /\ uncached' = [uncached EXCEPT ![p] = FALSE]
                /\ okPath' = okPath
                /\ Goto(p, "l88")
    /\ outcome' = [outcome EXCEPT ![p] = "none"]
    /\ result' = [result EXCEPT ![p] = NoPath]
    /\ errArg' = [errArg EXCEPT ![p] = NoPath]
    /\ fetched' = [fetched EXCEPT ![p] = << >>]
    /\ fetchExc' = [fetchExc EXCEPT ![p] = "none"]
    /\ payloadGot' = [payloadGot EXCEPT ![p] = NoPayload]
    /\ missAt73' = [missAt73 EXCEPT ![p] = FALSE]
    /\ errLine' = [errLine EXCEPT ![p] = "none"]
    /\ dlEntry' = [dlEntry EXCEPT ![p] = NoEntry]
    /\ UNCHANGED <<fs, procs>>

\* line 73: the gzip branch's cache-hit test
GzCheck(p) ==
    /\ pc[p] = "l73"
    /\ missAt73' = [missAt73 EXCEPT ![p] = ~Exists(fs, local_path[p])]
    /\ IF GzNeedsFetch(fs, local_path[p], force[p])
       THEN /\ target' = [target EXCEPT ![p] = local_path_gz[p]]
            /\ Goto(p, "l38")
       ELSE /\ target' = target
            /\ Goto(p, "l88")
    /\ Running(p)
    /\ UNCHANGED <<fs, cacheDir, procs, location, force, local_path, local_path_gz,
                   fetched, fetchExc, payloadGot, touched, uncached, okPath, hadOK, dlEntry, final0, budget>>

\* line 38: cached_download decides whether to download
DownloadCheck(p) ==
    /\ pc[p] = "l38"
    /\ IF NeedsDownload(fs, target[p], force[p])
       THEN Goto(p, "l41")
       ELSE Goto(p, "l45")
    /\ dlEntry' = [dlEntry EXCEPT ![p] = [entered |-> TRUE, file |-> fs[target[p]]]]
    /\ Running(p)
    /\ UNCHANGED <<fs, cacheDir, procs, location, force, local_path, local_path_gz,
                   target, fetched, fetchExc, payloadGot, missAt73, touched, uncached, okPath, hadOK, final0, budget>>

\* lines 39-43: urllib.request.urlretrieve(url, local_path) under the bare except
Fetch(p) ==
    /\ pc[p] = "l41"
    /\ \E payload \in Payloads : \E o \in FetchOutcomes(payload) :
        /\ fs' = IF o.opened THEN WriteFile(fs, target[p], o.bytes) ELSE fs
        /\ fetched' = [fetched EXCEPT ![p] = Append(@, location[p])]
        /\ fetchExc' = [fetchExc EXCEPT ![p] = o.exc]
        /\ IF o.exc = "none"
           THEN /\ payloadGot' = [payloadGot EXCEPT ![p] = [got |-> TRUE, bytes |-> payload]]
                /\ Goto(p, "l45")
                /\ Running(p)
           ELSE /\ payloadGot' = payloadGot
                /\ Raise(p, DownloadExcept(o.exc), location[p])
    /\ UNCHANGED <<cacheDir, procs, location, force, local_path, local_path_gz,
                   target, missAt73, touched, uncached, okPath, hadOK, dlEntry, final0, budget>>

\* lines 45-46: cached_download's check after the attempt
PostCheck(p) ==
    /\ pc[p] = "l45"
    /\ IF DownloadMissing(fs, target[p])
       THEN Raise(p, "IOError", target[p])
       ELSE /\ Goto(p, IF target[p] = local_path[p] THEN "l88" ELSE "l77")
            /\ Running(p)
    /\ UNCHANGED <<fs, cacheDir, procs, location, force, local_path, local_path_gz,
                   target, fetched, fetchExc, payloadGot, missAt73, touched, uncached, okPath, hadOK, dlEntry, final0, budget>>

\* lines 77-78: gzip.open(local_path_gz), open(local_path, 'wb'), copyfileobj
Gunzip(p) ==
    /\ pc[p] = "l77"
    /\ IF ~Exists(fs, local_path_gz[p])
       THEN /\ fs' = fs
            /\ Raise(p, "FileNotFoundError", local_path_gz[p])
       ELSE LET r == GunzipStream(fs[local_path_gz[p]].bytes)
            IN  IF r.err = "none"
                THEN /\ fs' = WriteFile(fs, local_path[p], r.out)
                     /\ Goto(p, "l80")
                     /\ Running(p)
                ELSE /\ \E w \in Prefixes(r.out) : fs' = WriteFile(fs, local_path[p], w)
                     /\ Raise(p, r.err, local_path_gz[p])
    /\ UNCHANGED <<cacheDir, procs, location, force, local_path, local_path_gz,
                   target, fetched, fetchExc, payloadGot, missAt73, touched, uncached, okPath, hadOK, dlEntry, final0, budget>>

\* line 80: assert local_path.exists()
AssertExists(p) ==
    /\ pc[p] = "l80"
    /\ IF Exists(fs, local_path[p])
       THEN Goto(p, "l81") /\ Running(p)
       ELSE Raise(p, "AssertionError", local_path[p])
    /\ UNCHANGED <<fs, cacheDir, procs, location, force, local_path, local_path_gz,
                   target, fetched, fetchExc, payloadGot, missAt73, touched, uncached, okPath, hadOK, dlEntry, final0, budget>>

\* line 81: local_path_gz.unlink()
UnlinkTransient(p) ==
    /\ pc[p] = "l81"
    /\ IF Exists(fs, local_path_gz[p])
       THEN /\ fs' = UnlinkGz(fs, local_path_gz[p])
            /\ Goto(p, "l88")
            /\ Running(p)
       ELSE /\ fs' = fs
            /\ Raise(p, "FileNotFoundError", local_path_gz[p])
    /\ UNCHANGED <<cacheDir, procs, location, force, local_path, local_path_gz,
                   target, fetched, fetchExc, payloadGot, missAt73, touched, uncached, okPath, hadOK, dlEntry, final0, budget>>

\* lines 88-91: the final validation and the return
FinalCheck(p) ==
    /\ pc[p] = "l88"
    /\ touched' = [touched EXCEPT ![p] = @ \/ local_path[p] \in CachePaths]
    /\ IF CannotRead(fs, local_path[p])
       THEN /\ Raise(p, "IOError", local_path[p])
            /\ okPath' = okPath
       ELSE /\ pc' = [pc EXCEPT ![p] = "idle"]
            /\ outcome' = [outcome EXCEPT ![p] = "returned"]
            /\ result' = [result EXCEPT ![p] = local_path[p]]
            /\ errArg' = errArg
            /\ errLine' = errLine
            /\ okPath' = IF StartsWithHttp(location[p]) /\ ~force[p]
                         THEN [okPath EXCEPT ![location[p]] = local_path[p]]
                         ELSE okPath
    /\ UNCHANGED <<fs, cacheDir, procs, location, force, local_path, local_path_gz,
                   target, fetched, fetchExc, payloadGot, missAt73, uncached, hadOK, dlEntry, final0, budget>>

Resolve(p) ==
    \/ Call(p)
    \/ GzCheck(p)
    \/ DownloadCheck(p)
    \/ Fetch(p)
    \/ PostCheck(p)
    \/ Gunzip(p)
    \/ AssertExists(p)
    \/ UnlinkTransient(p)
    \/ FinalCheck(p)

Next == \E p \in procs : Resolve(p) /\ UNCHANGED <<menu, kb, crop>>

Spec == Init /\ [][Next]_vars

TypeOK ==
    /\ \A path \in Paths : fs[path].exists \in BOOLEAN
    /\ cacheDir \in BOOLEAN
    /\ \A p \in AllProcs : pc[p] \in {"idle", "l73", "l38", "l41", "l45", "l77", "l80", "l81", "l88"}

\* two resolvers share the cache directory; each resolves the same gzip url
\* without force, MaxConcCalls times
InitConc ==
    /\ fs = InitFs
    /\ cacheDir = FALSE
    /\ procs = {1, 2}
    /\ menu = {<<UrlGz, FALSE>>}
    /\ budget = [p \in AllProcs |-> MaxConcCalls]
    /\ okPath = [u \in Urls |-> NoPath]
    /\ InitProc
    /\ kb = KbIdle
    /\ crop = CropIdle

SpecConc == InitConc /\ [][Next]_vars

----------------------------------------------------------------------------
(* KeyBuilder on its own: get_stem_extension on a name, and lines 63-71, 83
   of get_location on a url *)

NameChars == {"a", "."}

Names == UNION {[1..n -> NameChars] : n \in 0..MaxNameLen}

InitKey ==
    /\ fs = InitFs
    /\ cacheDir = FALSE
    /\ procs = {}
    /\ menu = {}
    /\ budget = [p \in AllProcs |-> 0]
    /\ okPath = [u \in Urls |-> NoPath]
    /\ InitProc
    /\ crop = CropIdle
    /\ \E name \in Names, url \in KeyUrls, frc \in BOOLEAN :
          kb = [KbIdle EXCEPT !.pc = "split", !.name = name, !.url = url, !.force = frc]

\* lines 49-58
KbSplit ==
    /\ kb.pc = "split"
    /\ kb' = [kb EXCEPT !.pc = "paths", !.split = get_stem_extension(kb.name)]

\* lines 63-71 and 83
KbPaths ==
    /\ kb.pc = "paths"
    /\ StartsWithHttp(kb.url)
    /\ kb' = [kb EXCEPT !.pc = "done",
                        !.local_path = FinalPath(kb.url),
                        !.local_path_gz = IF IsGzUrl(kb.url) THEN TransientPath(kb.url)
                                          ELSE NoPath]

NextKey ==
    /\ KbSplit \/ KbPaths
    /\ UNCHANGED <<fs, cacheDir, procs, pc, location, force, local_path, local_path_gz,
                   target, outcome, result, errArg, fetched, fetchExc, payloadGot,
                   missAt73, touched, uncached, okPath, hadOK, errLine, dlEntry, final0,
                   menu, budget, crop>>

SpecKey == InitKey /\ [][NextKey]_vars

----------------------------------------------------------------------------
(* yolocrop, lines 113-130: the box with the highest confidence is cropped.
   Confidences are integers 0..MaxConf; a box is its position in
   predictions.boxes, 0 stands for None *)

BoxLists == UNION {[1..n -> 0..MaxConf] : n \in 0..MaxBoxes}

InitCrop ==
    /\ fs = InitFs
    /\ cacheDir = FALSE
    /\ procs = {}
    /\ menu = {}
    /\ budget = [p \in AllProcs |-> 0]
    /\ okPath = [u \in Urls |-> NoPath]
    /\ InitProc
    /\ kb = KbIdle
    /\ \E confs \in BoxLists :
          crop = [pc |-> "loop", confs |-> confs, i |-> 1, best_confidence |-> 0,
                  best_boxes |-> 0, saved |-> 0]

\* as if a tie replaced the box found so far
IsBetter_OrEqual(confidence, best_confidence) == confidence >= best_confidence

\* line 118: confidence > best_confidence
IsBetter(confidence, best_confidence) == confidence > best_confidence

\* lines 116-120: one iteration of the loop
CropLoop ==
    /\ crop.pc = "loop"
    /\ crop.i <= Len(crop.confs)
    /\ crop' = IF IsBetter(crop.confs[crop.i], crop.best_confidence)
               THEN [crop EXCEPT !.i = @ + 1,
                                 !.best_boxes = crop.i,
                                 !.best_confidence = crop.confs[crop.i]]
               ELSE [crop EXCEPT !.i = @ + 1]

\* lines 122-130: after the loop, the crop is saved if a box was found
CropSave ==
    /\ crop.pc = "loop"
    /\ crop.i > Len(crop.confs)
    /\ crop' = [crop EXCEPT !.pc = "done",
                            !.saved = IF crop.best_boxes # 0 THEN crop.best_boxes ELSE 0]

NextCrop ==
    /\ CropLoop \/ CropSave
    /\ UNCHANGED <<fs, cacheDir, procs, pc, location, force, local_path, local_path_gz,
                   target, outcome, result, errArg, fetched, fetchExc, payloadGot,
                   missAt73, touched, uncached, okPath, hadOK, errLine, dlEntry, final0,
                   menu, budget, kb>>

SpecCrop == InitCrop /\ [][NextCrop]_vars

----------------------------------------------------------------------------
(* Properties *)

\* the last call of p has ended
Finished(p) == pc[p] = "idle" /\ outcome[p] # "none"

Returned(p) == Finished(p) /\ outcome[p] = "returned"

NonEmptyFile(f, path) == f[path].exists /\ Len(f[path].bytes) > 0

\* p is inside a call, or has just ended one, for a location without the http prefix
InLocalCall(p) == location[p] \in LocalPaths /\ (pc[p] # "idle" \/ outcome[p] # "none")

\* a step of a call on a local path changes neither the files nor the cache directory
LocalStepFrame ==
    (\E p \in procs : location'[p] \in LocalPaths /\ (pc[p] # "idle" \/ pc'[p] # "idle"))
        => UNCHANGED <<fs, cacheDir>>

\* C1: whenever get_location returns, for a local path, a plain URL or a gzip
\* URL, forced or not, the returned path exists and has non-zero size.
C1_ReturnedPathReadable ==
    \A p \in procs : Returned(p) => NonEmptyFile(fs, result[p])

C1_Witness ==
    \E p \in procs : Returned(p) /\ IsGzUrl(location[p]) /\ force[p] /\ fetched[p] # << >>

\* C2: once a resolve of a URL with force=False has succeeded (and no forced
\* resolve of that URL came after it), a further resolve of the same URL with
\* force=False performs no fetch and returns the same path.
C2_CacheHitIdempotent ==
    \A p \in procs :
        (StartsWithHttp(location[p]) /\ ~force[p] /\ hadOK[p] # NoPath)
            => /\ fetched[p] = << >>
               /\ Finished(p) => (outcome[p] = "returned" /\ result[p] = hadOK[p])

C2_Witness ==
    \E p \in procs :
        Returned(p) /\ IsGzUrl(location[p]) /\ ~force[p] /\ hadOK[p] # NoPath

\* C3: a resolve of an http URL with force=True fetches that URL, also when a
\* valid cached file exists.
C3_ForceFetches ==
    \A p \in procs :
        (Finished(p) /\ StartsWithHttp(location[p]) /\ force[p])
            => (Len(fetched[p]) >= 1 /\ fetched[p][1] = location[p])

C3_Witness ==
    \E p \in procs :
        Returned(p) /\ location[p] = UrlPt /\ force[p] /\ hadOK[p] # NoPath

\* C4 as claimed: after every successful resolve of a gzip URL the transient
\* file does not exist.
C4_TransientNeverSurvives ==
    \A p \in procs :
        (Returned(p) /\ IsGzUrl(location[p])) => ~Exists(fs, TransientPath(location[p]))

\* C4 amended: after every successful resolve of a gzip URL that did not take
\* the cache-hit path (the final file was absent at line 73, or force was set)
\* the transient file does not exist.
C4_TransientGoneAfterDecompress ==
    \A p \in procs :
        (Returned(p) /\ IsGzUrl(location[p]) /\ (missAt73[p] \/ force[p]))
            => ~Exists(fs, TransientPath(location[p]))

\* a transient left by an earlier call was decompressed without a fetch
C4_Witness ==
    \E p \in procs :
        Returned(p) /\ IsGzUrl(location[p]) /\ missAt73[p] /\ fetched[p] = << >>

C6_LocalPassthrough ==
    /\ [](\A p \in procs :
            (InLocalCall(p) /\ NonEmptyFile(fs, location[p]))
                => /\ fetched[p] = << >>
                   /\ ~touched[p]
                   /\ Finished(p) => (outcome[p] = "returned" /\ result[p] = location[p]))
    /\ [][LocalStepFrame]_vars

C6_Witness ==
    \E p \in procs : Returned(p) /\ location[p] = LocalFull /\ force[p] /\ ~cacheDir

\* C7: a resolve of a local path naming a missing or empty file raises IOError
\* naming the path, fetches nothing and changes no file, whatever force is.
C7_MissingLocal ==
    /\ [](\A p \in procs :
            (InLocalCall(p) /\ ~NonEmptyFile(fs, location[p]))
                => /\ fetched[p] = << >>
                   /\ Finished(p) => (outcome[p] = "IOError" /\ errArg[p] = location[p]
                                        /\ result[p] = NoPath))
    /\ [][LocalStepFrame]_vars

C7_Witness ==
    \E p \in procs : Finished(p) /\ location[p] = LocalMissing /\ outcome[p] = "IOError"

\* C8: when urlretrieve raises, in the gzip or the plain branch, the call ends
\* at once with DownloadError naming the URL and returns no path.
C8_FetchFailureIsDownloadError ==
    \A p \in procs :
        fetchExc[p] # "none"
            => /\ Finished(p)
               /\ outcome[p] = "DownloadError"
               /\ errArg[p] = location[p]
               /\ result[p] = NoPath

C8_Witness ==
    \E p \in procs : fetchExc[p] = "OSError" /\ IsGzUrl(location[p]) /\ Finished(p)

\* C9 as claimed: every finished call ended with a readable returned path,
\* DownloadError, IOError (BadGzipFile is one) or AssertionError.
C9_FourOutcomes ==
    \A p \in procs :
        Finished(p)
            => /\ outcome[p] \in {"returned", "DownloadError", "IOError", "BadGzipFile",
                                  "AssertionError"}
               /\ outcome[p] = "returned" => NonEmptyFile(fs, result[p])

\* C10: a call makes at most one fetch attempt; a non-forced resolve of a URL
\* that has no cache file makes exactly one, of that URL.
C10_SingleFetch ==
    \A p \in procs :
        /\ Len(fetched[p]) <= 1
        /\ (Finished(p) /\ StartsWithHttp(location[p]) /\ ~force[p] /\ uncached[p])
               => fetched[p] = <<location[p]>>

C10_Witness ==
    \E p \in procs :
        /\ Finished(p) /\ location[p] = UrlPt /\ ~force[p] /\ uncached[p]
        /\ outcome[p] = "DownloadError"

\* the position (from 1) of the last "." of name, 0 if there is none
LastDot(name) ==
    IF \E i \in 1..Len(name) : name[i] = "."
    THEN CHOOSE i \in 1..Len(name) :
            name[i] = "." /\ \A j \in (i + 1)..Len(name) : name[j] # "."
    ELSE 0

DotDat == <<".", "d", "a", "t">>

\* the split as the claims describe it
SplitAsClaimed(name) ==
    IF LastDot(name) > 1
    THEN [name_stem |-> SubSeq(name, 1, LastDot(name) - 1),
          extension |-> SubSeq(name, LastDot(name), Len(name))]
    ELSE [name_stem |-> name, extension |-> DotDat]

\* C11: get_stem_extension splits a name at its last "." when that "." is
\* not the first character (stem + extension = name); with no "." or the
\* last "." first, the extension is ".dat" and the stem is the whole name.
C11_StemExtension ==
    kb.pc \in {"paths", "done"} =>
        /\ kb.split = SplitAsClaimed(kb.name)
        /\ LastDot(kb.name) > 1 =>
              /\ kb.split.name_stem \o kb.split.extension = kb.name
              /\ kb.split.extension[1] = "."
              /\ \A i \in 2..Len(kb.split.extension) : kb.split.extension[i] # "."
        /\ LastDot(kb.name) <= 1 =>
              (kb.split.extension = DotDat /\ kb.split.name_stem = kb.name)

\* a name whose only "." is its first character
C11_Witness ==
    /\ kb.pc = "done"
    /\ kb.name = <<".", "a", "a">>
    /\ kb.split = [name_stem |-> <<".", "a", "a">>, extension |-> DotDat]

\* the part of url after its last "/"
SegmentAsClaimed(url) ==
    IF \E i \in 1..Len(url) : url[i] = "/"
    THEN LET k == CHOOSE i \in 1..Len(url) :
                    url[i] = "/" /\ \A j \in (i + 1)..Len(url) : url[j] # "/"
         IN  SubSeq(url, k + 1, Len(url))
    ELSE url

\* the split of the last segment, applied again to the stem when it gave ".gz"
KeyAsClaimed(url) ==
    LET k == SplitAsClaimed(SegmentAsClaimed(url))
    IN  IF k.extension = <<".", "g", "z">> THEN SplitAsClaimed(k.name_stem) ELSE k

\* "/c/model-{md5}.pt" for "http://ex.com/model.pt.gz"
ModelPtGzFinal == <<"/","c","/","m","o","d","e","l","-">> \o <<"2dcd21158c2af0b5c9929610a8627109">> \o <<".","p","t">>

\* "/c/model-{md5}.dat" for "http://ex.com/model.gz"
ModelGzFinal == <<"/","c","/","m","o","d","e","l","-">> \o <<"23f0b6f15fd4b955029002b58dcf295d">> \o <<".","d","a","t">>

\* C12: the cache path is {cacheDir}/{stem}-{md5hex(url)}{extension} with
\* (stem, extension) the split of the url's last segment, re-applied to the
\* stem when the extension is ".gz"; the transient path is the final path
\* with ".gz" appended; force plays no part.
C12_CachePath ==
    kb.pc = "done" =>
        /\ kb.local_path = CacheDirPath \o <<"/">> \o KeyAsClaimed(kb.url).name_stem
                             \o <<"-", url_hash(kb.url)>> \o KeyAsClaimed(kb.url).extension
        /\ SplitAsClaimed(SegmentAsClaimed(kb.url)).extension = <<".", "g", "z">>
              => kb.local_path_gz = kb.local_path \o <<".", "g", "z">>
        /\ kb.url = UrlModelPtGz => kb.local_path = ModelPtGzFinal
        /\ kb.url = UrlModelGz => kb.local_path = ModelGzFinal

C12_Witness ==
    /\ kb.pc = "done"
    /\ kb.url = UrlModelGz
    /\ kb.force
    /\ kb.local_path = ModelGzFinal
    /\ kb.local_path_gz = ModelGzFinal \o <<".", "g", "z">>

\* cached_download found that it had to download
NeededAtEntry(p) ==
    ~dlEntry[p].file.exists \/ Len(dlEntry[p].file.bytes) = 0 \/ force[p]

\* C13: cached_download fetches if and only if the target is absent, or empty,
\* or force is set; otherwise it fetches nothing and leaves the target as it was.
C13_FetchIffNeeded ==
    \A p \in procs :
        dlEntry[p].entered =>
            /\ pc[p] = "l41" => NeededAtEntry(p)
            /\ pc[p] # "l41" => (fetched[p] # << >> <=> NeededAtEntry(p))
            /\ (pc[p] = "l45" /\ ~NeededAtEntry(p)) => fs[target[p]] = dlEntry[p].file

\* the download was skipped over a non-empty target
C13_Witness ==
    \E p \in procs :
        /\ dlEntry[p].entered /\ pc[p] = "l45" /\ fetched[p] = << >>
        /\ ~force[p] /\ Len(dlEntry[p].file.bytes) > 0

\* the file the call is about was there and empty before the call
PreExistingEmpty(p) ==
    IF StartsWithHttp(location[p]) THEN final0[p] = File(<< >>)
    ELSE location[p] \in LocalPaths /\ fs[location[p]] = File(<< >>)

\* (a) a download that raised nothing but left the target empty ends the call
\* with IOError naming the target, raised at line 45
C14_CaseA ==
    \A p \in procs :
        (payloadGot[p].got /\ pc[p] # "l45" /\ payloadGot[p].bytes = << >>)
            => /\ Finished(p)
               /\ outcome[p] = "IOError"
               /\ errArg[p] = target[p]
               /\ errLine[p] = "l45"

\* C14 as claimed: the check of cached_download raises IOError naming the
\* path (a) after a download that left the target empty and (b) when no
\* download was attempted and the file was already empty.
C14_FetcherCheckBothCases ==
    /\ C14_CaseA
    /\ \A p \in procs :
          (Finished(p) /\ fetched[p] = << >> /\ PreExistingEmpty(p))
              => /\ outcome[p] = "IOError"
                 /\ errArg[p] = local_path[p]
                 /\ errLine[p] = "l45"

\* C14 amended: (a) as claimed; (b) cached_download never reaches its check
\* without a download over an empty target, and a call that attempted no
\* download on an already empty file ends with IOError naming the path raised
\* by the check of get_location at line 88.
C14_MissingFileChecks ==
    /\ C14_CaseA
    /\ \A p \in procs :
          /\ (pc[p] = "l45" /\ fetched[p] = << >>) => NonEmptyFile(fs, target[p])
          /\ (Finished(p) /\ fetched[p] = << >> /\ PreExistingEmpty(p))
                => /\ outcome[p] = "IOError"
                   /\ errArg[p] = local_path[p]
                   /\ errLine[p] = "l88"

C14_Witness ==
    \E p \in procs :
        /\ Finished(p) /\ payloadGot[p].got /\ payloadGot[p].bytes = << >>
        /\ IsGzUrl(location[p]) /\ outcome[p] = "IOError" /\ errLine[p] = "l45"

\* the current or last call of p took the gzip branch (line 68)
InGzBranch(p) == local_path_gz[p] # NoPath

\* p is past line 73 of a gzip call that found the final file and had no force
CacheHit(p) ==
    /\ InGzBranch(p) /\ ~force[p] /\ ~missAt73[p]
    /\ pc[p] # "l73"
    /\ pc[p] # "idle" \/ outcome[p] # "none"

\* C15: in the gzip branch the cache hit is decided by the presence of the
\* final file alone; on a hit nothing is fetched or decompressed and no file
\* changes, a transient left behind included; a transient is only ever
\* written by a fetch.
C15_GzCacheHitFrame ==
    /\ [](\A p \in procs :
            CacheHit(p) => (pc[p] \in {"l88", "idle"} /\ fetched[p] = << >>))
    /\ [][\A p \in procs :
            (pc[p] = "l73" /\ pc'[p] # "l73")
                => (pc'[p] = "l88" <=> (fs[local_path[p]].exists /\ ~force[p]))]_vars
    /\ [][(\E p \in procs : CacheHit(p)') => fs' = fs]_vars
    /\ [][\A p \in procs :
            (InGzBranch(p) /\ fs'[local_path_gz[p]].exists
               /\ fs'[local_path_gz[p]] # fs[local_path_gz[p]])
                => \E q \in procs : pc[q] = "l41" /\ target[q] = local_path_gz[p]]_vars

\* a hit that returned while a transient of an earlier call lies in the cache
C15_Witness ==
    \E p \in procs :
        Returned(p) /\ CacheHit(p) /\ Exists(fs, local_path_gz[p])

\* C16 as claimed: in the gzip branch the final file is written only after
\* the fetch of this call has succeeded, and the transient is deleted only by
\* line 81, after decompression and the assert.
C16_FetchThenDecompress ==
    [][\A path \in CachePaths :
         /\ (fs'[path] # fs[path] /\ \E p \in procs : InGzBranch(p) /\ path = local_path[p])
               => \E p \in procs : pc[p] = "l77" /\ local_path[p] = path /\ payloadGot[p].got
         /\ (fs[path].exists /\ ~fs'[path].exists)
               => \E p \in procs : pc[p] = "l81" /\ local_path_gz[p] = path]_vars

\* a gzip call without force that found the final file there and empty
EmptyFinalCall(p) ==
    /\ InGzBranch(p) /\ ~force[p] /\ final0[p] = File(<< >>)
    /\ pc[p] # "idle" \/ outcome[p] # "none"

\* C18: in the gzip branch an empty final file is not repaired without force:
\* the call fetches nothing, changes no file and ends with IOError naming the
\* final file, so every repetition does the same; with force the url is
\* fetched.  In the plain branch an empty cached file is downloaded again.
C18_EmptyFinalNotRepaired ==
    /\ [](\A p \in procs :
            /\ EmptyFinalCall(p)
                  => /\ fetched[p] = << >>
                     /\ fs[local_path[p]] = File(<< >>)
                     /\ Finished(p) => (outcome[p] = "IOError" /\ errArg[p] = local_path[p])
            /\ (Finished(p) /\ InGzBranch(p) /\ force[p] /\ final0[p] = File(<< >>))
                  => fetched[p] = <<location[p]>>
            /\ (Finished(p) /\ location[p] = UrlPt /\ final0[p] = File(<< >>))
                  => fetched[p] = <<location[p]>>)
    /\ [][(\E p \in procs : EmptyFinalCall(p)') => fs' = fs]_vars

\* the second failure in a row: the previous call had already left it empty
C18_Witness ==
    \E p \in procs :
        /\ Finished(p) /\ EmptyFinalCall(p) /\ outcome[p] = "IOError"
        /\ ~Exists(fs, local_path_gz[p])

\* C19: a forced resolve of a gzip url that ends in DownloadError leaves an
\* existing final file exactly as it was.
C19_FailedFetchKeepsFinal ==
    \A p \in procs :
        (Finished(p) /\ IsGzUrl(location[p]) /\ force[p]
           /\ outcome[p] = "DownloadError" /\ final0[p].exists)
            => fs[local_path[p]] = final0[p]

\* the failed download had already written part of the transient
C19_Witness ==
    \E p \in procs :
        /\ Finished(p) /\ IsGzUrl(location[p]) /\ force[p]
        /\ outcome[p] = "DownloadError" /\ fetchExc[p] = "OSError"
        /\ Len(final0[p].bytes) > 0
        /\ Size(fs, TransientPath(location[p])) > 0

\* C17: nothing keeps two resolvers from fetching the same url: a resolver
\* that found the target absent or empty at line 38 fetches the url into that
\* target whatever the other resolver did in the meantime, and both use the
\* same target file.
C17_NoFetchExclusion ==
    \A p \in procs :
        (dlEntry[p].entered /\ NeededAtEntry(p) /\ pc[p] # "l41")
            => /\ fetched[p] = <<location[p]>>
               /\ \A q \in procs :
                     (dlEntry[q].entered /\ location[q] = location[p])
                         => target[q] = target[p]

\* both resolvers, started on an empty cache without force, have downloaded
\* the same url into the same transient
C17_Witness ==
    /\ location[1] = UrlGz /\ location[2] = UrlGz
    /\ ~force[1] /\ ~force[2]
    /\ uncached[1] /\ uncached[2]
    /\ fetched[1] = <<UrlGz>> /\ fetched[2] = <<UrlGz>>
    /\ payloadGot[1].got /\ payloadGot[2].got
    /\ target[1] = TransientPath(UrlGz) /\ target[2] = TransientPath(UrlGz)

\* the positions of the boxes whose confidence is the greatest
BestPositions(confs) ==
    {i \in 1..Len(confs) : \A j \in 1..Len(confs) : confs[j] <= confs[i]}

\* C20: yolocrop saves the crop of the first box among those with the
\* greatest confidence, provided some box has a confidence above 0; with no
\* such box, or no box at all, it saves nothing.
C20_BestBoxCropped ==
    crop.pc = "done" =>
        IF \E i \in 1..Len(crop.confs) : crop.confs[i] > 0
        THEN /\ crop.saved \in BestPositions(crop.confs)
             /\ \A i \in BestPositions(crop.confs) : crop.saved <= i
        ELSE crop.saved = 0

\* a tie between the second and the third box
C20_Witness ==
    crop.pc = "done" /\ crop.confs = <<1, 2, 2>> /\ crop.saved = 2

====
